---- MODULE Spec2Model ----
(***************************************************************************)
(* ElementaryJS: the test harness (runtime.ts: enableTests, assert, test,  *)
(* summary), the handle returned by compile (index.ts: ElementaryRunner    *)
(* and SudoRunner), the suspending primitives of lib220.ts (sleep, input,  *)
(* loadImageFromURL, loadJSONFromURL) and the definite-assignment tracker  *)
(* of the visitor (visitor.ts: EnvironmentList and the node rules).        *)
(***************************************************************************)
EXTENDS Integers, Sequences, FiniteSets, TLC

(***************************************************************************)
(* Bounds of the model.                                                    *)
(***************************************************************************)
\* number of top-level statements of the compiled program
MaxStmts == 2
\* number of turns a long-running (but terminating) test body needs
SlowSegs == 2
\* largest index that the running program uses on its array
MaxIndex == 1

(***************************************************************************)
(* The compiled program: a sequence of top-level statements.               *)
(*   work       a statement that touches no library name                   *)
(*   testOk     test(d, function() {})                                    *)
(*   testFail   test(d, function() { assert(false); })                    *)
(*   testLoop   test(d, function() { while (true) {} })                   *)
(*   testSlow   test(d, f) where f runs for several turns and returns      *)
(*   sleep, input, loadImageFromURL, loadJSONFromURL: calls of lib220      *)
(***************************************************************************)
TestKinds == {"testOk", "testFail", "testLoop", "testSlow"}
PrimKinds == {"sleep", "input", "loadImageFromURL", "loadJSONFromURL"}
StmtKinds == {"work"} \cup TestKinds \cup PrimKinds

VARIABLES
  \* ---- chosen by the embedder at compile time
  sudo,            \* opts.sudo: compile returned a SudoRunner
  hasDocument,     \* typeof document !== 'undefined' (running in a browser)
  prog,            \* the program text, as a sequence of StmtKinds
  \* ---- runtime.ts module state
  testsEnabled,    \* testsEnabled
  tests,           \* tests: TestResult[]
  isRunning,       \* stopifyRunner.isRunning
  \* ---- the scheduler object held in stopifyRunner.runner
  eventMode,       \* "running" | "paused" | "waiting"
  onYieldHook,     \* the callback pause() armed for the next yield
  suspendCont,     \* suspendRTS.continuation
  resumePending,   \* a setImmediate(() => runner.resume()) is queued
  primK,           \* the continuation saved by pauseImmediate (0: none)
  \* ---- the program's own position
  started,         \* run() was called
  pc,              \* index of the next top-level statement
  mainState,       \* where the main continuation is
  thunkState,      \* where the continuation of the running test body is
  thunkLeft,       \* turns the running test body still needs
  timers,          \* test calls whose setTimeout is armed
  done,            \* test calls whose local `done` is true
  ext,             \* the pending external callback of a suspended primitive
  \* ---- observations (history of what the code did)
  pushed,          \* per test call: how many times tests.push ran for it
  calledOff,       \* test calls made while testsEnabled was false
  armedEver,       \* test calls that ever armed a timer
  thunkRan,        \* test calls whose thunk was started
  resumedK,        \* test calls whose captured continuation k was re-entered
  stopRequested,   \* stop() was called on the handle
  hostStopped,     \* how many times the onStopped passed to stop() ran
  encStopped,      \* how many times stopifyRunner.onStopped ran
  timerAfterStop,  \* test calls whose timer fired after stop() was called
  resumeOwner,     \* the test call whose timer queued the pending resume
  resumedByLateTimer, \* a timer that fired after stop() resumed the runner
  runResult,       \* the type of the Result given to run's onDone
  lastOp,          \* the last operation that ran
  summaryOut,      \* what the last summary() call returned
  sinceReport,     \* summary() calls since the last report
  lastCb,          \* what the last external callback did
  \* ---- the compiler (visitor.ts), while it checks a program
  open,            \* the traversal's position: the nodes entered and not yet left
  nodes,           \* number of statements and switch cases visited so far
  envList,         \* the EnvironmentList object and the environments it holds
  errors,          \* st.elem.errors: the diagnostics reported so far
  compiled,        \* "no" while traversing, then what applyElementaryJS returns
  elem,            \* st.elem: inConstructor and inConstructorStack
  \* ---- what the program being compiled does when it runs
  declInit,        \* the declaration of x has an initializer (let x = 0;)
  may,             \* at the node being visited: can x be assigned, unassigned
  unsafeRead,      \* some path reads x before any assignment to x
  fun,             \* what a call of the last function declared in the Program does
  \* ---- observations of the tracker
  left,            \* the statement that the last handler left, if it left one
  \* ---- the run-time checks
  ejsOff,          \* let ejsOff of runtime.ts: errors are logged, not thrown
  heap,            \* the object or array that the running program holds
  lastCheck,       \* the last check called: arguments, error raised, value
  g                \* runner.g: what each global name is bound to

runtimeVars == <<ejsOff, heap, lastCheck, g>>

hostVars == <<sudo, hasDocument, prog, testsEnabled, tests, isRunning,
  eventMode, onYieldHook, suspendCont, resumePending, primK, started, pc,
  mainState, thunkState, thunkLeft, timers, done, ext, pushed, calledOff,
  armedEver, thunkRan, resumedK, stopRequested, hostStopped, encStopped,
  timerAfterStop, resumeOwner, resumedByLateTimer, runResult, lastOp,
  summaryOut, sinceReport, lastCb>>

harnessVars == <<hostVars, runtimeVars>>

compilerVars == <<open, nodes, envList, errors, compiled, elem, declInit, may, unsafeRead,
  fun, left>>

vars == <<harnessVars, compilerVars>>

Stmts == 1 .. MaxStmts

NoHook == [kind |-> "none", i |-> 0]
StopHook == [kind |-> "stop", i |-> 0]
NoopHook == [kind |-> "noop", i |-> 0]
TimerHook(i) == [kind |-> "timer", i |-> i]
NoCont == [who |-> "none", pc |-> 0, k |-> 0]
NoCb == [kind |-> "none", afterStop |-> FALSE, consulted |-> FALSE, routed |-> "none"]
NoOut == [kind |-> "none", lines |-> <<>>, numFailed |-> 0, numPassed |-> 0]

(***************************************************************************)
(* runtime.ts: the test records and the assertion.                         *)
(***************************************************************************)
TestResult(description, failed, error) ==
  [description |-> description, failed |-> failed, error |-> error]

\* a push that puts the record at the front of the list
PushRecordFront(ts, r) == <<r>> \o ts

\* tests.push(r)
PushRecord(ts, r) == Append(ts, r)

\* assert(val): the Result of calling it
assert(val) ==
  IF val \notin BOOLEAN
    THEN [type |-> "exception", value |-> "Assertion argument is not a boolean value."]
    ELSE IF ~val
      THEN [type |-> "exception", value |-> "Assertion failed."]
      ELSE [type |-> "normal", value |-> "true"]

\* the Result runStopifiedCode hands to test's callback when the thunk ends
ThunkResult(kind) ==
  IF kind = "testFail" THEN assert(FALSE) ELSE [type |-> "normal", value |-> "undefined"]

\* test without its early return
TestsNotEnabledNoReturn == FALSE

\* test: `if (!testsEnabled) { return; }`
TestsNotEnabledReturn == ~testsEnabled

\* a pause callback that does not look at `done`
PauseCbIgnoresDone(i) == FALSE

\* test, pause callback: `if (done) { return; }`
PauseCbDoneReturn(i) == i \in done

\* the record test's runStopifiedCode callback pushes for a Result
CompletionRecord(i, result) ==
  IF result.type = "normal"
    THEN TestResult(i, FALSE, "none")
    ELSE TestResult(i, TRUE, result.value)

\* a callback that hands the thunk's own Result to the continuation
CompletionResumePropagates(result) == result

\* the Result test's callback passes to the captured continuation k
CompletionResume(result) == [type |-> "normal", value |-> "undefined"]

(***************************************************************************)
(* State after compile(code, opts): module state of runtime.ts as loaded,  *)
(* setRunner done by the ElementaryRunner constructor.                     *)
(***************************************************************************)
\* ---- the run-time checks of runtime.ts -------------------------------------

\* JavaScript values: t is the type, n the number, s the string
Val(t, n, s) == [t |-> t, n |-> n, s |-> s]
Undefined == Val("undefined", 0, "")
Null == Val("null", 0, "")
Num(n) == Val("number", n, "")
Fraction == Val("fraction", 1, "1.5")    \* the number 1.5
Str(s) == Val("string", 0, s)
Ref == Val("ref", 0, "")                 \* the object or array of the heap
\* Val("array", 0, "") is an array that an operation made, Val("function", 0,
\* s) the function named s
Absent == Val("absent", 0, "")           \* no own property of that name

\* typeof v
typeof(v) ==
  CASE v.t \in {"null", "ref", "array"} -> "object"
    [] v.t = "fraction" -> "number"
    [] OTHER -> v.t

\* v is not falsy
Truthy(v) ==
  /\ v.t \notin {"undefined", "null"}
  /\ ~(v.t = "number" /\ v.n = 0)
  /\ ~(v.t = "string" /\ v.s = "")

\* the property names and the numeric keys of the heap object: a is an own
\* property of { a: 0 }, m a function that every object inherits (toString),
\* b is neither; 1.5 is the key of the index 1.5
PropertyNames == {"a", "b", "m", "1.5"}
Indices == -1 .. MaxIndex

\* the object  { a: 0 }
InitialObject ==
  [array |-> FALSE, length |-> 0,
   named |-> [s \in PropertyNames |-> IF s = "a" THEN Num(0) ELSE Absent],
   at |-> [i \in Indices |-> Absent]]

\* new Array(n) with every element set to v
FilledArray(n, v) ==
  [array |-> TRUE, length |-> n, named |-> [s \in PropertyNames |-> Absent],
   at |-> [i \in Indices |-> IF 0 <= i /\ i < n THEN v ELSE Absent]]

\* the own property of H under key k, Absent when there is none
Own(H, k) == IF k.t = "number" THEN H.at[k.n] ELSE H.named[k.s]

\* H.hasOwnProperty(k)
hasOwnProperty(H, k) == Own(H, k) # Absent

\* H[k]
Get(H, k) ==
  IF hasOwnProperty(H, k) THEN Own(H, k)
  ELSE IF k = Str("m") THEN Val("function", 0, "toString")
  ELSE Undefined

\* H[k] = v; an array grows when k is an index not below its length
Put(H, k, v) ==
  IF k.t = "number"
  THEN [H EXCEPT !.at[k.n] = v,
                 !.length = IF H.array /\ k.n >= @ THEN k.n + 1 ELSE @]
  ELSE [H EXCEPT !.named[k.s] = v]

\* index >= H.length, false when H has no length or index is no number
NotBelowLength(H, index) ==
  H.array /\ index.t \in {"number", "fraction"} /\ index.n >= H.length

\* an operation that has just begun: nothing raised, nothing logged
Begin(H) == [raised |-> "none", logged |-> FALSE, value |-> Undefined, heap |-> H]

\* errorHandle(err, check, line): throw, or warn when ejsOff
errorHandle(off, x) ==
  IF x.raised # "none" THEN x
  ELSE IF ~off THEN [x EXCEPT !.raised = "ElementaryRuntimeError"]
  ELSE [x EXCEPT !.logged = TRUE]

\* what an operation does after x when cond holds, and nothing otherwise
Check(off, cond, x) == IF cond THEN errorHandle(off, x) ELSE x

\* ArrayStub.create(n, v) called with two arguments, Stopify loaded
ArrayStubCreate(off, H, n, v) ==
  LET x == Check(off, ~(n.t = "number" /\ n.n >= 1), Begin(H))
  IN IF x.raised # "none" THEN x
     ELSE IF ~(n.t = "number" /\ n.n >= 0) THEN [x EXCEPT !.raised = "RangeError"]
     ELSE [x EXCEPT !.heap = FilledArray(n.n, v), !.value = Ref]

\* checkCall(object, field, args), args[0] a string or an object
checkCall(off, H, object, field) ==
  LET x == Begin(H) IN
  IF typeof(object) = "string" /\ field = "split" THEN [x EXCEPT !.value = Val("array", 0, "")]
  ELSE IF field = "split" THEN [x EXCEPT !.raised = "TypeError"]
  ELSE IF typeof(object) = "function" /\ object.s = "Object"
  THEN [x EXCEPT !.value = Val("array", 0, "")]
  ELSE errorHandle(off, x)

\* arrayBoundsCheck(object, index, line)
arrayBoundsCheckNoUpperBound(off, H, object, index, x) ==
  LET x1 == Check(off, ~(object = Ref /\ H.array), x)
      x2 == Check(off, index.t # "number" \/ index.n < 0, x1)
  IN IF x2.raised # "none" THEN x2
     ELSE [x2 EXCEPT !.value = IF object = Ref THEN Get(H, index) ELSE object]
arrayBoundsCheck(off, H, object, index, x) ==
  LET x1 == Check(off, ~(object = Ref /\ H.array), x)
      x2 == Check(off, index.t # "number" \/ index.n < 0, x1)
      x3 == Check(off, object = Ref /\ NotBelowLength(H, index), x2)
  IN IF x3.raised # "none" THEN x3
     ELSE [x3 EXCEPT !.value = IF object = Ref THEN Get(H, index) ELSE object]

\* dot(object, index, line); a string has its n characters, the own property
\* length and the inherited function split
dotReturnsObject(off, H, object, index, x) ==
  LET own == IF object = Ref THEN hasOwnProperty(H, index)
             ELSE object.t = "string" /\ index = Str("length")
      get == CASE object = Ref -> Get(H, index)
               [] own -> Num(object.n)
               [] object.t = "string" /\ index = Str("split") -> Val("function", 0, "split")
               [] OTHER -> Undefined
      x1 == Check(off, typeof(object) \notin {"object", "string", "boolean", "number",
                                              "function"}, x)
      x2 == Check(off, Truthy(object) /\ ~own /\ typeof(get) # "function", x1)
  IN IF x2.raised # "none" THEN x2
     ELSE [x2 EXCEPT !.value = object]
dot(off, H, object, index, x) ==
  LET own == IF object = Ref THEN hasOwnProperty(H, index)
             ELSE object.t = "string" /\ index = Str("length")
      get == CASE object = Ref -> Get(H, index)
               [] own -> Num(object.n)
               [] object.t = "string" /\ index = Str("split") -> Val("function", 0, "split")
               [] OTHER -> Undefined
      x1 == Check(off, typeof(object) \notin {"object", "string", "boolean", "number",
                                              "function"}, x)
      x2 == Check(off, Truthy(object) /\ ~own /\ typeof(get) # "function", x1)
  IN IF x2.raised # "none" THEN x2
     ELSE [x2 EXCEPT !.value = IF Truthy(object) THEN get ELSE object]

\* return o && (o[k] = v)
Assign(H, o, k, v, x) ==
  IF x.raised # "none" THEN x
  ELSE IF Truthy(o) THEN [x EXCEPT !.heap = Put(H, k, v), !.value = v]
  ELSE [x EXCEPT !.value = o]

\* checkMember(o, k, v, line)
checkMember(off, H, o, k, v) ==
  Assign(H, o, k, v, dot(off, H, o, k, Check(off, o = Ref /\ H.array, Begin(H))))

\* checkArray(o, k, v, line)
checkArray(off, H, o, k, v) ==
  Assign(H, o, k, v, arrayBoundsCheck(off, H, o, k, Begin(H)))

\* no operation has run (since disableEJS)
NoOutcome ==
  [op |-> "none", o |-> Undefined, k |-> Undefined, v |-> Undefined,
   raised |-> "none", logged |-> FALSE, value |-> Undefined]

\* what an operation leaves for the caller
Outcome(op, o, k, v, x) ==
  [op |-> op, o |-> o, k |-> k, v |-> v,
   raised |-> x.raised, logged |-> x.logged, value |-> x.value]

\* the global object of a new ElementaryRunner; x is not one of its names
globals ==
  [k \in {"elementaryjs", "console", "test", "assert", "lib220", "version", "Array",
          "Math", "undefined", "Object", "x"} |-> IF k = "x" THEN "absent" ELSE "library"]

InitHarness ==
  /\ sudo \in BOOLEAN
  /\ hasDocument \in BOOLEAN
  /\ prog \in [Stmts -> StmtKinds]
  /\ testsEnabled = FALSE
  /\ tests = <<>>
  /\ isRunning = FALSE
  /\ eventMode = "running"
  /\ onYieldHook = NoHook
  /\ suspendCont = NoCont
  /\ resumePending = FALSE
  /\ primK = 0
  /\ started = FALSE
  /\ pc = 1
  /\ mainState = "notStarted"
  /\ thunkState = "none"
  /\ thunkLeft = 0
  /\ timers = {}
  /\ done = {}
  /\ ext = "none"
  /\ pushed = [i \in Stmts |-> 0]
  /\ calledOff = {}
  /\ armedEver = {}
  /\ thunkRan = {}
  /\ resumedK = {}
  /\ stopRequested = FALSE
  /\ hostStopped = 0
  /\ encStopped = 0
  /\ timerAfterStop = {}
  /\ resumeOwner = 0
  /\ resumedByLateTimer = FALSE
  /\ runResult = "none"
  /\ lastOp = "compile"
  /\ summaryOut = NoOut
  /\ sinceReport = "none"
  /\ lastCb = NoCb
  /\ ejsOff = FALSE
  /\ heap = InitialObject
  /\ lastCheck = NoOutcome
  /\ g = globals

\* the module variable envList of visitor.ts before any Program.enter
NoEnvironmentList ==
  [list |-> <<>>, rootIf |-> <<>>, rootSw |-> <<>>, heap |-> <<>>, thrown |-> FALSE]

\* no statement was left by the last handler.  Otherwise: the type of the
\* statement; wasU, x was in U of the enclosing environment when the statement
\* was entered; nowI, x is in I of the enclosing environment now; promotes, x
\* was in I of the environment of every body of the statement when that body
\* ended; complete, the statement ends in an else, or has a default and a
\* body in every group of cases
\* no function declared yet.  Of a declared function: bad, a call with x
\* unassigned reads x; end, whether x can be assigned after such a call;
\* promotes, x is in I at the end of the body
NoFunction == [declared |-> FALSE, bad |-> FALSE, end |-> {}, promotes |-> FALSE]

NoLeft ==
  [type |-> "none", wasU |-> FALSE, nowI |-> FALSE, promotes |-> FALSE, complete |-> FALSE]

\* the compiler is not running: compile returned the handle
CompilerIdle ==
  /\ open = <<>>
  /\ nodes = 0
  /\ envList = NoEnvironmentList
  /\ errors = <<>>
  /\ compiled = "no"
  /\ elem = [inConstructor |-> FALSE, inConstructorStack |-> <<>>]
  /\ declInit = FALSE
  /\ may = {}
  /\ unsafeRead = FALSE
  /\ fun = NoFunction
  /\ left = NoLeft

Init == InitHarness /\ CompilerIdle

cfgVars == <<sudo, hasDocument, prog, compilerVars, runtimeVars>>
testObs == <<pushed, calledOff, armedEver, thunkRan, resumedK>>
stopObs == <<stopRequested, hostStopped, encStopped, timerAfterStop, resumeOwner, resumedByLateTimer>>
sumObs == <<summaryOut, sinceReport>>
schedVars == <<eventMode, onYieldHook, suspendCont, resumePending, primK>>
progVars == <<started, pc, mainState, thunkState, thunkLeft, timers, done, ext>>

(***************************************************************************)
(* runtime.ts: enableTests and summary, called by the embedder.            *)
(***************************************************************************)
\* enableTests(enable, timeout)
enableTests(enable) ==
  /\ testsEnabled' = enable
  /\ tests' = <<>>

HostEnableTests ==
  \E enable \in BOOLEAN :
    /\ enableTests(enable)
    /\ sinceReport' = IF enable THEN "none" ELSE sinceReport
    /\ lastOp' = "enableTests"
    /\ UNCHANGED <<cfgVars, isRunning, schedVars, progVars, testObs, stopObs,
                   runResult, summaryOut, lastCb>>

\* one line of the report for a record
ReportLine(r) ==
  IF r.failed
    THEN [status |-> "FAILED", description |-> r.description, error |-> r.error]
    ELSE [status |-> "OK", description |-> r.description, error |-> "none"]

\* the value summary() returns, computed as its loop computes it
SummaryOutput(ts) ==
  [kind |-> "report",
   lines |-> [j \in 1 .. Len(ts) |-> ReportLine(ts[j])],
   numFailed |-> Cardinality({j \in 1 .. Len(ts) : ts[j].failed}),
   numPassed |-> Cardinality({j \in 1 .. Len(ts) : ~ts[j].failed})]

\* a summary that clears the records but leaves testing enabled
summaryResetKeepsEnabled == enableTests(testsEnabled)

\* what summary() does to testsEnabled and tests after it has reported
summaryReset == enableTests(FALSE)

\* summary(hasStyles)
summary ==
  IF ~testsEnabled
    THEN /\ summaryOut' = [NoOut EXCEPT !.kind = "notEnabled"]
         /\ sinceReport' = IF sinceReport = "none" THEN "none" ELSE "again"
         /\ UNCHANGED <<testsEnabled, tests>>
    ELSE /\ summaryOut' = IF Len(tests) = 0
                            THEN [NoOut EXCEPT !.kind = "noTests"]
                            ELSE SummaryOutput(tests)
         /\ sinceReport' = "reported"
         /\ summaryReset

HostSummary ==
  /\ summary
  /\ lastOp' = "summary"
  /\ UNCHANGED <<cfgVars, isRunning, schedVars, progVars, testObs, stopObs,
                 runResult, lastCb>>

(***************************************************************************)
(* The scheduler the handle drives (runner.pause, runner.resume,           *)
(* pauseImmediate, continueImmediate, runStopifiedCode).                   *)
(***************************************************************************)
\* the continuation k a test call captures: the program after statement i
TestCont(i) == [who |-> "main", pc |-> i + 1, k |-> i]

\* the body of the callback test's timer hands to runner.pause, run at a
\* yield whose own captured continuation is c
TimerPauseCallback(i, c) ==
  IF PauseCbDoneReturn(i)
    THEN /\ suspendCont' = c
         /\ UNCHANGED <<tests, pushed, resumePending, resumeOwner>>
    ELSE /\ suspendCont' = TestCont(i)
         /\ tests' = PushRecord(tests, TestResult(i, TRUE, "Time limit exceeded."))
         /\ pushed' = [pushed EXCEPT ![i] = @ + 1]
         /\ resumePending' = TRUE
         /\ resumeOwner' = i

\* a pause callback armed by h runs, at a yield that captured c
RunPauseCallback(h, c) ==
  CASE h.kind = "stop" ->
         /\ hostStopped' = hostStopped + 1
         /\ suspendCont' = c
         /\ UNCHANGED <<tests, pushed, resumePending, resumeOwner>>
    [] h.kind = "timer" ->
         /\ TimerPauseCallback(h.i, c)
         /\ UNCHANGED hostStopped
    [] OTHER ->
         /\ suspendCont' = c
         /\ UNCHANGED <<tests, pushed, resumePending, resumeOwner, hostStopped>>

\* runner.pause(h): armed for the next yield while the program runs, run at
\* once when the program has finished, refused when it is already paused
RunnerPause(h) ==
  CASE eventMode = "running" ->
         /\ onYieldHook' = h
         /\ UNCHANGED <<eventMode, suspendCont, tests, pushed, resumePending,
                        resumeOwner, hostStopped>>
    [] eventMode = "waiting" ->
         /\ eventMode' = "paused"
         /\ RunPauseCallback(h, suspendCont)
         /\ UNCHANGED onYieldHook
    [] OTHER ->
         UNCHANGED <<eventMode, onYieldHook, suspendCont, tests, pushed,
                     resumePending, resumeOwner, hostStopped>>

(***************************************************************************)
(* index.ts: the handle.                                                   *)
(***************************************************************************)
\* a statement of a SudoRunner program fails when it names a library global
\* (SudoRunner.g is the empty object)
SudoFails(i) == prog[i] # "work"

\* ElementaryRunner.run / SudoRunner.run
HostRun ==
  /\ ~started
  /\ started' = TRUE
  /\ lastOp' = "run"
  /\ IF sudo
       THEN /\ mainState' = "done"
            /\ IF \E i \in Stmts : SudoFails(i)
                 THEN /\ runResult' = "exception"
                      /\ pc' = CHOOSE i \in Stmts :
                                 SudoFails(i) /\ \A j \in Stmts : SudoFails(j) => i <= j
                 ELSE /\ runResult' = "normal"
                      /\ pc' = MaxStmts + 1
       ELSE /\ mainState' = "ready"
            /\ UNCHANGED <<runResult, pc>>
  /\ UNCHANGED <<cfgVars, testsEnabled, tests, isRunning, schedVars,
                 thunkState, thunkLeft, timers, done, ext, testObs, stopObs,
                 sumObs, lastCb>>

\* ElementaryRunner.stop / SudoRunner.stop
HostStop ==
  /\ started
  /\ ~stopRequested
  /\ stopRequested' = TRUE
  /\ lastOp' = "stop"
  /\ IF sudo
       THEN UNCHANGED <<eventMode, onYieldHook, suspendCont, tests, pushed,
                        resumePending, resumeOwner, hostStopped>>
       ELSE RunnerPause(StopHook)
  /\ UNCHANGED <<cfgVars, testsEnabled, isRunning, primK, progVars, calledOff,
                 armedEver, thunkRan, resumedK, encStopped, timerAfterStop,
                 resumedByLateTimer, runResult, sumObs, lastCb>>

(***************************************************************************)
(* runtime.ts: test(description, testFunction).                            *)
(***************************************************************************)
\* the callback test gives to runStopifiedCode, run with the thunk's Result
TestCompletion(i, result) ==
  /\ tests' = PushRecord(tests, CompletionRecord(i, result))
  /\ pushed' = [pushed EXCEPT ![i] = @ + 1]
  /\ timers' = timers \ {i}
  /\ done' = done \cup {i}
  /\ thunkState' = "none"
  /\ thunkLeft' = 0
  /\ resumedK' = resumedK \cup {i}
  /\ IF CompletionResume(result).type = "normal"
       THEN /\ mainState' = "ready"
            /\ pc' = i + 1
            /\ UNCHANGED <<runResult, eventMode>>
       ELSE /\ mainState' = "done"
            /\ runResult' = "exception"
            /\ eventMode' = "waiting"
            /\ UNCHANGED pc

\* the program yields at a suspension point of its top level while a pause
\* callback is armed
MainYieldPause ==
  /\ ~sudo
  /\ mainState = "ready"
  /\ onYieldHook # NoHook
  /\ eventMode' = "paused"
  /\ onYieldHook' = NoHook
  /\ RunPauseCallback(onYieldHook, [who |-> "main", pc |-> pc, k |-> 0])
  /\ mainState' = "paused"
  /\ lastOp' = "yield"
  /\ UNCHANGED <<cfgVars, testsEnabled, isRunning, primK, started, pc,
                 thunkState, thunkLeft, timers, done, ext, calledOff, armedEver,
                 thunkRan, resumedK, stopRequested, encStopped, timerAfterStop,
                 resumedByLateTimer, runResult, sumObs, lastCb>>

\* the running test body yields while a pause callback is armed
ThunkYieldPause ==
  /\ thunkState = "ready"
  /\ onYieldHook # NoHook
  /\ eventMode' = "paused"
  /\ onYieldHook' = NoHook
  /\ RunPauseCallback(onYieldHook, [who |-> "thunk", pc |-> pc, k |-> 0])
  /\ thunkState' = IF onYieldHook.kind = "timer" /\ ~PauseCbDoneReturn(onYieldHook.i)
                     THEN "none" ELSE "paused"
  /\ lastOp' = "yield"
  /\ UNCHANGED <<cfgVars, testsEnabled, isRunning, primK, started, pc,
                 mainState, thunkLeft, timers, done, ext, calledOff, armedEver,
                 thunkRan, resumedK, stopRequested, encStopped, timerAfterStop,
                 resumedByLateTimer, runResult, sumObs, lastCb>>

\* the running test body runs its next turn: it yields again, or returns.
\* With a pause callback armed it gets here only in its last turn, by
\* returning before its next suspension point.
ThunkRun ==
  /\ thunkState = "ready"
  /\ onYieldHook = NoHook \/ (prog[pc] = "testSlow" /\ thunkLeft = 1)
  /\ lastOp' = "thunk"
  /\ IF prog[pc] = "testSlow" /\ thunkLeft = 1
       THEN /\ TestCompletion(pc, ThunkResult(prog[pc]))
            /\ UNCHANGED <<started, ext>>
       ELSE /\ thunkLeft' = IF prog[pc] = "testSlow" THEN thunkLeft - 1 ELSE thunkLeft
            /\ UNCHANGED <<tests, pushed, resumedK, runResult, eventMode, started,
                           pc, mainState, thunkState, timers, done, ext>>
  /\ UNCHANGED <<cfgVars, testsEnabled, isRunning, onYieldHook, suspendCont,
                 resumePending, primK, calledOff, armedEver, thunkRan,
                 stopObs, sumObs, lastCb>>

\* the setTimeout callback of test call i
TimerFire ==
  \E i \in timers :
    /\ timers' = timers \ {i}
    /\ timerAfterStop' = IF stopRequested THEN timerAfterStop \cup {i} ELSE timerAfterStop
    /\ RunnerPause(TimerHook(i))
    /\ lastOp' = "timer"
    /\ UNCHANGED <<cfgVars, testsEnabled, isRunning, primK, started, pc,
                   mainState, thunkState, thunkLeft, done, ext, calledOff,
                   armedEver, thunkRan, resumedK, stopRequested, encStopped,
                   resumedByLateTimer, runResult, sumObs, lastCb>>

\* the setImmediate callback of test's pause callback: runner.resume()
ResumeFire ==
  /\ resumePending
  /\ resumePending' = FALSE
  /\ resumeOwner' = 0
  /\ lastOp' = "resume"
  /\ IF eventMode = "waiting"
       THEN UNCHANGED <<eventMode, onYieldHook, suspendCont, mainState, pc,
                        thunkState, resumedK, resumedByLateTimer>>
       ELSE /\ eventMode' = "running"
            /\ onYieldHook' = NoHook
            /\ suspendCont' = NoCont
            /\ resumedByLateTimer' =
                 (resumedByLateTimer \/
                    (resumeOwner \in timerAfterStop /\ suspendCont.who # "none"))
            /\ CASE suspendCont.who = "main" ->
                      /\ mainState' = "ready"
                      /\ pc' = suspendCont.pc
                      /\ resumedK' = IF suspendCont.k # 0
                                       THEN resumedK \cup {suspendCont.k} ELSE resumedK
                      /\ UNCHANGED thunkState
                 [] suspendCont.who = "thunk" ->
                      /\ thunkState' = "ready"
                      /\ UNCHANGED <<mainState, pc, resumedK>>
                 [] OTHER -> UNCHANGED <<mainState, pc, thunkState, resumedK>>
  /\ UNCHANGED <<cfgVars, testsEnabled, tests, isRunning, primK, started,
                 thunkLeft, timers, done, ext, pushed, calledOff, armedEver,
                 thunkRan, stopRequested, hostStopped, encStopped,
                 timerAfterStop, runResult, sumObs, lastCb>>

\* the program has the turn and no pause callback is armed
MainTurn ==
  /\ ~sudo
  /\ mainState = "ready"
  /\ onYieldHook = NoHook

\* the program runs off its last statement: run's onDone gets a normal Result
MainFinish ==
  /\ MainTurn
  /\ pc > MaxStmts
  /\ mainState' = "done"
  /\ runResult' = "normal"
  /\ eventMode' = "waiting"
  /\ lastOp' = "finish"
  /\ UNCHANGED <<cfgVars, testsEnabled, tests, isRunning, onYieldHook,
                 suspendCont, resumePending, primK, started, pc, thunkState,
                 thunkLeft, timers, done, ext, testObs, stopObs, sumObs, lastCb>>

\* a statement that calls nothing of the library
MainWork ==
  /\ MainTurn
  /\ pc <= MaxStmts
  /\ prog[pc] = "work"
  /\ pc' = pc + 1
  /\ lastOp' = "work"
  /\ UNCHANGED <<cfgVars, testsEnabled, tests, isRunning, schedVars, started,
                 mainState, thunkState, thunkLeft, timers, done, ext, testObs,
                 stopObs, runResult, sumObs, lastCb>>

\* test(description, testFunction) called by the program at statement pc
MainTest ==
  /\ MainTurn
  /\ pc <= MaxStmts
  /\ prog[pc] \in TestKinds
  /\ lastOp' = "test"
  /\ calledOff' = IF testsEnabled THEN calledOff ELSE calledOff \cup {pc}
  /\ IF TestsNotEnabledReturn
       THEN /\ pc' = pc + 1
            /\ UNCHANGED <<tests, pushed, timers, done, thunkState, thunkLeft,
                           resumedK, mainState, runResult, eventMode, armedEver,
                           thunkRan>>
       ELSE /\ armedEver' = armedEver \cup {pc}
            /\ thunkRan' = thunkRan \cup {pc}
            /\ IF prog[pc] \in {"testOk", "testFail"}
                 THEN TestCompletion(pc, ThunkResult(prog[pc]))
                 ELSE /\ timers' = timers \cup {pc}
                      /\ mainState' = "inTest"
                      /\ thunkState' = "ready"
                      /\ thunkLeft' = SlowSegs
                      /\ UNCHANGED <<tests, pushed, done, resumedK, pc, runResult,
                                     eventMode>>
  /\ UNCHANGED <<cfgVars, testsEnabled, isRunning, onYieldHook, suspendCont,
                 resumePending, primK, started, ext, stopObs, sumObs, lastCb>>

(***************************************************************************)
(* lib220.ts: sleep, input, loadImageFromURL, loadJSONFromURL.             *)
(***************************************************************************)
\* `if (runner.isRunning) { continueImmediate(..) } else { onStopped() }`
Routed == IF isRunning THEN "continueImmediate" ELSE "onStopped"

Cb(kind, consulted, routed) ==
  [kind |-> kind, afterStop |-> stopRequested, consulted |-> consulted, routed |-> routed]

\* n executions of the isRunning branch inside an external callback
ExtAnswer(n) ==
  IF isRunning
    THEN IF n >= 1 /\ primK # 0
           THEN /\ mainState' = "ready"
                /\ pc' = primK
                /\ primK' = 0
                /\ UNCHANGED encStopped
           ELSE UNCHANGED <<mainState, pc, primK, encStopped>>
    ELSE /\ encStopped' = encStopped + n
         /\ UNCHANGED <<mainState, pc, primK>>

\* the program calls a suspending primitive at statement pc
MainPrim ==
  /\ MainTurn
  /\ pc <= MaxStmts
  /\ prog[pc] \in PrimKinds
  /\ lastOp' = "prim"
  /\ IF ~hasDocument
       THEN /\ pc' = pc + 1
            /\ UNCHANGED <<mainState, primK, ext, encStopped>>
       ELSE \E first \in BOOLEAN :
              \* first: prompt was cancelled / the user is not logged in
              LET n == CASE prog[pc] = "sleep" -> 0
                         [] prog[pc] = "input" -> IF first THEN 2 ELSE 1
                         [] OTHER -> IF first THEN 1 ELSE 0
              IN /\ ext' = CASE prog[pc] = "sleep" -> "sleep"
                             [] prog[pc] = "input" -> "none"
                             [] prog[pc] = "loadJSONFromURL" -> "fetchJSON"
                             [] OTHER -> "fetchImage"
                 /\ IF isRunning /\ n >= 1
                      THEN /\ mainState' = "ready"
                           /\ pc' = pc + 1
                           /\ primK' = 0
                           /\ UNCHANGED encStopped
                      ELSE /\ mainState' = "inPrim"
                           /\ primK' = pc + 1
                           /\ encStopped' = encStopped + n
                           /\ UNCHANGED pc
  /\ UNCHANGED <<cfgVars, testsEnabled, tests, isRunning, eventMode,
                 onYieldHook, suspendCont, resumePending, started, thunkState,
                 thunkLeft, timers, done, testObs, stopRequested, hostStopped,
                 timerAfterStop, resumeOwner, resumedByLateTimer, runResult,
                 sumObs, lastCb>>

extFrame == <<cfgVars, testsEnabled, tests, isRunning, eventMode, onYieldHook,
              suspendCont, resumePending, started, thunkState, thunkLeft,
              timers, done, testObs, stopRequested, hostStopped, timerAfterStop,
              resumeOwner, resumedByLateTimer, runResult, sumObs>>

\* sleep: the window.setTimeout callback
ExtSleep ==
  /\ ext = "sleep"
  /\ ext' = "none"
  /\ ExtAnswer(1)
  /\ lastCb' = Cb("sleep", TRUE, Routed)
  /\ lastOp' = "callback"
  /\ UNCHANGED extFrame

\* loadURLHandler: the fetch promise settles
ExtFetch ==
  /\ ext \in {"fetchJSON", "fetchImage"}
  /\ \E outcome \in {"ok", "non200", "error"} :
       /\ ext' = CASE outcome = "error" -> "none"
                   [] ext = "fetchJSON" -> "json"
                   [] OTHER -> "blob"
       /\ ExtAnswer(IF outcome = "ok" THEN 0 ELSE 1)
       /\ lastCb' = IF outcome = "ok" THEN Cb("fetch", FALSE, "none")
                                      ELSE Cb("fetch", TRUE, Routed)
  /\ lastOp' = "callback"
  /\ UNCHANGED extFrame

\* loadJSONFromURL's loadFunction: response.json() settles.  Both handlers
\* call continueImmediate on the EncapsulatedRunner, which has no such method.
ExtJson ==
  /\ ext = "json"
  /\ ext' = "none"
  /\ lastCb' = Cb("json", FALSE, "typeError")
  /\ lastOp' = "callback"
  /\ UNCHANGED <<mainState, pc, primK, encStopped>>
  /\ UNCHANGED extFrame

\* loadImageFromURL's loadFunction: response.blob() settles
ExtBlob ==
  /\ ext = "blob"
  /\ lastOp' = "callback"
  /\ \E ok \in BOOLEAN :
       IF ok
         THEN /\ ext' = "img"
              /\ lastCb' = Cb("blob", FALSE, "none")
              /\ UNCHANGED <<mainState, pc, primK, encStopped, eventMode,
                             onYieldHook, suspendCont, tests, pushed,
                             resumePending, resumeOwner, hostStopped>>
         ELSE /\ ext' = "none"
              /\ lastCb' = Cb("blob", TRUE, IF isRunning THEN "continueImmediate" ELSE "pause")
              /\ IF isRunning
                   THEN /\ ExtAnswer(1)
                        /\ UNCHANGED <<eventMode, onYieldHook, suspendCont, tests,
                                       pushed, resumePending, resumeOwner, hostStopped>>
                   ELSE /\ RunnerPause(NoopHook)
                        /\ UNCHANGED <<mainState, pc, primK, encStopped>>
  /\ UNCHANGED <<cfgVars, testsEnabled, isRunning, started, thunkState,
                 thunkLeft, timers, done, calledOff, armedEver, thunkRan,
                 resumedK, stopRequested, timerAfterStop, resumedByLateTimer,
                 runResult, sumObs>>

\* loadImageFromURL's loadFunction: img.onload or img.onerror
ExtImg ==
  /\ ext = "img"
  /\ ext' = "none"
  /\ ExtAnswer(1)
  /\ lastCb' = Cb("img", TRUE, Routed)
  /\ lastOp' = "callback"
  /\ UNCHANGED extFrame

(***************************************************************************)
(* visitor.ts: class EnvironmentList.  An Environment is an object, and    *)
(* list, rootIf and rootSw hold references to objects: heap maps each      *)
(* reference (a positive number) to the object's current fields, 0 is      *)
(* null.  thrown records that a method threw.                              *)
(***************************************************************************)
null == 0

Environment(name, I, U) == [name |-> name, I |-> I, U |-> U]

Throw(E) == [E EXCEPT !.thrown = TRUE]

\* a reference that no object has yet
NewRef(E) == CHOOSE r \in 1 .. Cardinality(DOMAIN E.heap) + 1 : r \notin DOMAIN E.heap

\* the objects still referenced from list, rootIf or rootSw
Live(E) ==
  (UNION {{E.list[i][j] : j \in 1 .. Len(E.list[i])} : i \in 1 .. Len(E.list)} \cup
   {E.rootIf[i] : i \in 1 .. Len(E.rootIf)} \cup
   {E.rootSw[i] : i \in 1 .. Len(E.rootSw)}) \ {null}

\* objects that nothing references any more are dropped from the heap
Collect(E) == [E EXCEPT !.heap = [r \in Live(E) \cap DOMAIN E.heap |-> E.heap[r]]]

\* new EnvironmentList([{ name, I: new Set(), U: new Set() }])
NewEnvironmentList(name) ==
  [list |-> << <<1>> >>, rootIf |-> <<>>, rootSw |-> <<>>,
   heap |-> [r \in {1} |-> Environment(name, {}, {})], thrown |-> FALSE]

EveryNull(l) == \A j \in 1 .. Len(l) : l[j] = null
EveryNonNull(l) == \A j \in 1 .. Len(l) : l[j] # null
IncludesNull(l) == \E j \in 1 .. Len(l) : l[j] = null

\* l.findIndex(e => !e), counted from 1; 0 when there is none
FindIndexNull(l) ==
  IF IncludesNull(l) THEN CHOOSE j \in 1 .. Len(l) : l[j] = null /\ \A h \in 1 .. j - 1 : l[h] # null
  ELSE 0

\* peek(): the loop of lines 72-73, positions counted from 1
RECURSIVE peekLoop(_, _)
peekLoop(list, i) ==
  IF i > 1 /\ EveryNull(list[i]) THEN peekLoop(list, i - 1) ELSE i

peek(E) == peekLoop(E.list, Len(E.list))

\* pushIndex(): the loop of lines 78-79
RECURSIVE pushIndexLoop(_, _)
pushIndexLoop(list, i) ==
  IF i > 1 /\ EveryNonNull(list[i]) THEN pushIndexLoop(list, i - 1) ELSE i

pushIndex(E) == pushIndexLoop(E.list, Len(E.list))

\* peekEnvironment(): the last entry that is not null of list[peek()];
\* null when list is empty or that entry does not exist
peekEnvironment(E) ==
  IF peek(E) = 0 THEN null
  ELSE LET e == E.list[peek(E)]
           S == {j \in 1 .. Len(e) : e[j] # null}
       IN IF S = {} THEN null ELSE e[CHOOSE j \in S : \A h \in S : h <= j]

\* setI, setU
setIUnion(s1, s2) == s1 \cup s2
setI(s1, s2) == {id \in s1 : id \in s2}
setU(s1, s2) == s1 \cup s2

\* squashIndex(), counted from 1
squashIndex(E) ==
  IF FindIndexNull(E.list[Len(E.list)]) = 0 THEN 1
  ELSE FindIndexNull(E.list[Len(E.list)])

\* addI(id): setA(peekEnvironment().I, id)
addI(E, id) ==
  LET r == peekEnvironment(E) IN
  IF r = null \/ id \in E.heap[r].I THEN Throw(E)
  ELSE [E EXCEPT !.heap[r].I = @ \cup {id}]

\* addU(id): setA(peekEnvironment().U, id)
addU(E, id) ==
  LET r == peekEnvironment(E) IN
  IF r = null \/ id \in E.heap[r].U THEN Throw(E)
  ELSE [E EXCEPT !.heap[r].U = @ \cup {id}]

\* swap(id)
swapKeepsU(E, id) ==
  LET r == peekEnvironment(E) IN
  IF r = null THEN Throw(E)
  ELSE IF id \notin E.heap[r].U THEN Throw(E)
  ELSE IF id \in E.heap[r].I THEN Throw(E)
  ELSE [E EXCEPT !.heap[r].I = @ \cup {id}]
swap(E, id) ==
  LET r == peekEnvironment(E) IN
  IF r = null THEN Throw(E)
  ELSE IF id \notin E.heap[r].U THEN Throw(E)
  ELSE IF id \in E.heap[r].I THEN Throw(E)
  ELSE [E EXCEPT !.heap[r].U = @ \ {id}, !.heap[r].I = @ \cup {id}]

\* the new object { name, I: new Set(e.I), U: new Set(e.U) }
CopyOf(E, name, r) == Environment(name, E.heap[r].I, E.heap[r].U)

Last(q) == q[Len(q)]
Pop(q) == SubSeq(q, 1, Len(q) - 1)

\* the environment a branch is copied from: the last root of the if statements
\* or of the switch statements (undefined, here null, when there is none)
rootOfSibling(E, name) == peekEnvironment(E)
rootOf(E, name) ==
  LET roots == IF name = "IfStatement" THEN E.rootIf ELSE E.rootSw
  IN IF roots = <<>> THEN null ELSE Last(roots)

\* pushEnvironment(name)
pushEnvironment(E, name) ==
  LET i == pushIndex(E) IN
  IF i > 1 /\ name \in {"IfStatement", "SwitchCase"}
  THEN LET j == FindIndexNull(E.list[i])
           e == rootOf(E, name)
       IN IF e = null \/ j = 0 THEN Throw(E)
          ELSE [E EXCEPT !.list[i][j] = NewRef(E),
                         !.heap = [r \in DOMAIN E.heap \cup {NewRef(E)} |->
                                     IF r = NewRef(E) THEN CopyOf(E, name, e)
                                     ELSE E.heap[r]]]
  ELSE IF peekEnvironment(E) = null THEN Throw(E)
  ELSE [E EXCEPT !.list = Append(@, <<NewRef(E)>>),
                 !.heap = [r \in DOMAIN E.heap \cup {NewRef(E)} |->
                             IF r = NewRef(E) THEN CopyOf(E, name, peekEnvironment(E))
                             ELSE E.heap[r]]]

\* pushNull(e, name), e being an array of n nulls
pushNull(E, n, name) ==
  LET F == [E EXCEPT !.list = Append(@, [j \in 1 .. n |-> null])] IN
  IF name = "SwitchStatement" THEN [F EXCEPT !.rootSw = Append(@, peekEnvironment(F))]
  ELSE IF name # "IfStatement" THEN [F EXCEPT !.rootIf = Append(@, peekEnvironment(F))]
  ELSE F

\* popList()
popList(E) ==
  IF E.list = <<>> THEN Throw(E)
  ELSE IF Len(E.list) = 1 THEN Throw([E EXCEPT !.list = <<>>])
  ELSE [E EXCEPT !.list = Pop(@)]

\* popRoot(isIf)
popRoot(E, isIf) ==
  IF isIf
  THEN IF E.rootIf = <<>> THEN Throw(E)
       ELSE IF Last(E.rootIf) = null THEN Throw([E EXCEPT !.rootIf = Pop(@)])
       ELSE [E EXCEPT !.rootIf = Pop(@)]
  ELSE IF E.rootSw = <<>> THEN Throw(E)
       ELSE IF Last(E.rootSw) = null THEN Throw([E EXCEPT !.rootSw = Pop(@)])
       ELSE [E EXCEPT !.rootSw = Pop(@)]

\* the loop of lines 185-188 of squash: I sets intersected, U sets united
RECURSIVE squashI(_, _, _), squashU(_, _, _)
squashI(E, toSquash, i) ==
  IF i = 1 THEN E.heap[toSquash[1]].I
  ELSE setI(squashI(E, toSquash, i - 1), E.heap[toSquash[i]].I)

squashU(E, toSquash, i) ==
  IF i = 1 THEN E.heap[toSquash[1]].U
  ELSE setU(squashU(E, toSquash, i - 1), E.heap[toSquash[i]].U)

\* squash(isIf, name), name never being given
squash(E, isIf) ==
  IF E.list = <<>> THEN Throw(E)
  ELSE IF IncludesNull(Last(E.list)) THEN popList(E)
  ELSE
    LET toSquash == Last(E.list)
        F == [E EXCEPT !.list = Pop(@)]
        slot == squashIndex(F)
        env == IF isIf
               THEN (IF slot <= Len(Last(F.list)) THEN Last(F.list)[slot] ELSE null)
               ELSE peekEnvironment(F)
        iSet == squashI(E, toSquash, Len(toSquash))
        uSet == squashU(E, toSquash, Len(toSquash))
    IN
    IF F.list = <<>> THEN Throw(F)
    ELSE IF ~isIf /\ env = null THEN Throw(F)
    ELSE IF toSquash = <<>> THEN Throw(F)
    ELSE IF env # null
    THEN LET known == F.heap[env].I \cup F.heap[env].U
             both == F.heap[env].I \cap F.heap[env].U
         IN IF (iSet \cup uSet) \cap both # {} THEN Throw(F)
            ELSE [F EXCEPT !.heap[env].I = iSet \cap known,
                           !.heap[env].U = uSet \cap known]
    ELSE [F EXCEPT !.list[Len(F.list)] =
                     IF slot <= Len(@) THEN [@ EXCEPT ![slot] = NewRef(F)]
                     ELSE Append(@, NewRef(F)),
                   !.heap = [r \in DOMAIN F.heap \cup {NewRef(F)} |->
                               IF r = NewRef(F) THEN Environment("<empty>", iSet, uSet)
                               ELSE F.heap[r]]]

(***************************************************************************)
(* visitor.ts: the traversal.  Babel calls the handlers of the visitor in  *)
(* source order: enter, the children in the order test, consequent,        *)
(* alternate (test, body for both loops; discriminant, cases for a         *)
(* switch), exit.  The program is the input: it starts with the            *)
(* declaration of x (let x; or let x = 0;) and each handler below is       *)
(* enabled where a node of its type can come next:                         *)
(*   x = 0;   x;   break;   { ... }   function f() { ... }                 *)
(*   while (t) { ... }   do { ... } while (t);                             *)
(*   if (t) { ... } [else { ... } | else if ...]                           *)
(*   switch (c) { case t: | case t: { ... } | default: | default: { ... } }*)
(* a test t being the constant c or the variable x.  f is never called.    *)
(* open is the path from the Program node to the node being visited.       *)
(***************************************************************************)
\* statements, else branches and switch cases of the program
MaxNodes == 5
\* nodes open at the same time, the Program node included
MaxOpen == 5
\* cases of one switch statement
MaxCases == 2

Tests == {"c", "x"}
CaseTests == {"c", "x", "default"}

\* the cases of a switch statement: the test and whether a block follows
CaseLists ==
  {cs \in UNION {[1 .. n -> [test : CaseTests, braces : BOOLEAN]] : n \in 0 .. MaxCases} :
     Cardinality({i \in DOMAIN cs : cs[i].test = "default"}) <= 1}

MustInitialize == "You must initialize the variable 'x' before use."
MustDeclare == "You must declare variable 'y' before assigning a value to it."
NoPatterns == "Do not use patterns"

\* an open node: its type, its parent's type, the child that comes next;
\* for a switch the cases still to visit and whether the one being visited
\* has a block; flag: the if has an alternate, the switch has a default.
\* entry, acc and brk: what x can be when the node starts to run, at the
\* end of its first branch (or of the previous case), and at its breaks.
\* wasU, promotes and complete: as in left.  baseline: I and U of the
\* enclosing environment when the if chain or the switch was entered;
\* atBaseline: the environment of this block started as a copy of it.
Frame(type, parent, phase) ==
  [type |-> type, parent |-> parent, phase |-> phase, cases |-> <<>>,
   flag |-> FALSE, braces |-> FALSE, testReads |-> FALSE,
   entry |-> {}, acc |-> {}, brk |-> {},
   wasU |-> FALSE, promotes |-> TRUE, complete |-> FALSE,
   baseline |-> [I |-> {}, U |-> {}], atBaseline |-> TRUE]

Top == Last(open)
SetTop(q, f) == [q EXCEPT ![Len(q)] = f]

Traversing == compiled = "no" /\ open # <<>>

\* a statement can come next: the body of the program or of a block
AtStatement ==
  /\ Traversing
  /\ Top.type \in {"Program", "BlockStatement"}
  /\ Top.phase = "body"
  /\ nodes < MaxNodes

\* a statement with a block of its own can come next
AtCompound == AtStatement /\ Len(open) + 2 <= MaxOpen

\* the handler is done: a throw leaves the traversal, and compile reports
\* the exception (applyElementaryJS, wrapException)
Finish(E, q) ==
  /\ envList' = Collect(E)
  /\ open' = IF E.thrown THEN <<>> ELSE q
  /\ compiled' = IF E.thrown THEN "exception" ELSE compiled

\* envList.peekEnvironment().U.has(id)
InU(E, id) == peekEnvironment(E) # null /\ id \in E.heap[peekEnvironment(E)].U

\* envList.peekEnvironment().I.has(id)
InI(E, id) == peekEnvironment(E) # null /\ id \in E.heap[peekEnvironment(E)].I

\* the I and U sets of envList.peekEnvironment()
Sets(E) ==
  IF peekEnvironment(E) = null THEN [I |-> {}, U |-> {}]
  ELSE [I |-> E.heap[peekEnvironment(E)].I, U |-> E.heap[peekEnvironment(E)].U]

\* Program.enter
ProgramEnter ==
  /\ open = <<Frame("Program", "File", "declaration")>>
  /\ nodes = 0
  /\ envList = NewEnvironmentList("Program")
  /\ errors = <<>>
  /\ compiled = "no"
  /\ elem = [inConstructor |-> FALSE, inConstructorStack |-> <<>>]
  /\ declInit = FALSE
  /\ may = {}
  /\ unsafeRead = FALSE
  /\ fun = NoFunction
  /\ left = NoLeft

\* VariableDeclarator: let x;  or  let x = 0;
VariableDeclarator ==
  /\ Traversing
  /\ Top.type = "Program" /\ Top.phase = "declaration"
  /\ \E init \in BOOLEAN :
       /\ Finish(IF init THEN addI(envList, "x") ELSE addU(envList, "x"),
                 SetTop(open, [Top EXCEPT !.phase = "body"]))
       /\ declInit' = init
       /\ may' = {init}
  /\ left' = NoLeft
  /\ UNCHANGED <<nodes, errors, unsafeRead, fun, elem, harnessVars>>

\* the phase of a node after its test has been visited
AfterTest(f) ==
  CASE f.type = "IfStatement" -> "consequent"
    [] f.type = "SwitchStatement" -> IF f.braces THEN "consequent" ELSE "case"
    [] OTHER -> "body"

\* the functions with a block as body: function f() { }, the constructor of a
\* class, and the arrow function  () => { }
FunctionTypes == {"FunctionDeclaration", "ClassMethod", "ArrowFunctionExpression"}

\* the node visited is inside the body of a function
InFunction == \E i \in 1 .. Len(open) : open[i].type \in FunctionTypes

\* ReferencedIdentifier: the statement  x;  or a test that is x
ReferencedIdentifier ==
  /\ Traversing
  /\ AtStatement \/ Top.phase = "test"
  /\ LET inTest == Top.phase = "test"
         E == IF peekEnvironment(envList) = null THEN Throw(envList) ELSE envList
         at == CASE ~inTest -> may
                 [] Top.type = "SwitchStatement" -> Top.entry
                 [] Top.type = "DoWhileStatement" -> {}
                 [] OTHER -> may
     IN /\ Finish(E, IF inTest THEN SetTop(open, [Top EXCEPT !.phase = AfterTest(Top)])
                     ELSE open)
        /\ errors' = IF InU(envList, "x") THEN Append(errors, MustInitialize) ELSE errors
        /\ nodes' = IF inTest THEN nodes ELSE nodes + 1
        /\ unsafeRead' = (unsafeRead \/ (~InFunction /\ FALSE \in at))
        /\ fun' = IF InFunction /\ FALSE \in at THEN [fun EXCEPT !.bad = TRUE] ELSE fun
  /\ left' = NoLeft
  /\ UNCHANGED <<declInit, may, elem, harnessVars>>

\* AssignmentExpression.exit of the statement  x = 0;
AssignmentExpressionExit ==
  /\ AtStatement
  /\ Finish(IF peekEnvironment(envList) = null THEN Throw(envList)
            ELSE IF InU(envList, "x") THEN swap(envList, "x")
            ELSE envList,
            open)
  /\ nodes' = nodes + 1
  /\ may' = IF may = {} THEN {} ELSE {TRUE}
  /\ left' = NoLeft
  /\ UNCHANGED <<errors, declInit, unsafeRead, fun, elem, harnessVars>>

\* AssignmentExpression.exit of the statement  this.m = 0;  whose left side
\* is a member of this: the statement stays as it is in a constructor, and
\* becomes checkMember(this, 'm', 0) anywhere else
AssignmentExpressionThis ==
  /\ AtStatement
  /\ Finish(envList, open)
  /\ nodes' = nodes + 1
  /\ left' = [NoLeft EXCEPT !.type = IF elem.inConstructor THEN "this.m = 0"
                                     ELSE "checkMember"]
  /\ UNCHANGED <<errors, declInit, may, unsafeRead, fun, elem, harnessVars>>

\* AssignmentExpression.enter and exit of a statement that fails a check of
\* enter:  y = 0;  with y not declared, or  [x] = [0];  whose left side is a
\* pattern.  exit returns for the first; for the second it throws
\* Error('syntactic check error'), which ends the traversal: applyElementaryJS
\* then returns that one message in place of st.elem
AssignmentExpressionRejected ==
  /\ AtStatement
  /\ \E pattern \in BOOLEAN :
       /\ errors' = Append(errors, IF pattern THEN NoPatterns ELSE MustDeclare)
       /\ IF pattern
          THEN /\ open' = <<>>
               /\ compiled' = "exception"
               /\ envList' = envList
          ELSE Finish(IF peekEnvironment(envList) = null THEN Throw(envList) ELSE envList,
                      open)
  /\ nodes' = nodes + 1
  /\ left' = NoLeft
  /\ UNCHANGED <<declInit, may, unsafeRead, fun, elem, harnessVars>>

\* the loop or switch that a break at the node being visited leaves
Breakable ==
  {i \in 1 .. Len(open) :
     /\ open[i].type \in {"ForStatement", "WhileStatement", "DoWhileStatement",
                         "SwitchStatement"}
     /\ \A h \in i + 1 .. Len(open) : open[h].type \notin FunctionTypes}

\* break;  (no handler: the visitor leaves the statement alone)
BreakStatement ==
  /\ AtStatement
  /\ Breakable # {}
  /\ LET b == CHOOSE i \in Breakable : \A h \in Breakable : h <= i
     IN open' = [open EXCEPT ![b].brk = @ \cup may]
  /\ nodes' = nodes + 1
  /\ may' = {}
  /\ left' = NoLeft
  /\ UNCHANGED <<envList, errors, compiled, declInit, unsafeRead, fun, elem, harnessVars>>

\* the type of the parent of a block that can come next, "" when none can
BlockParent ==
  CASE ~Traversing -> ""
    [] AtStatement /\ Len(open) + 1 <= MaxOpen -> Top.type
    [] Top.type = "IfStatement" /\ Top.phase = "consequent" -> "IfStatement"
    [] Top.type = "IfStatement" /\ Top.phase = "alternate" /\ nodes < MaxNodes -> "IfStatement"
    [] Top.type \in {"ForStatement", "WhileStatement", "DoWhileStatement"} \cup FunctionTypes
         /\ Top.phase = "body" -> Top.type
    [] Top.type = "SwitchStatement" /\ Top.phase = "consequent" -> "SwitchCase"
    [] OTHER -> ""

\* BlockStatement.enter
BlockStatementEnter ==
  /\ BlockParent # ""
  /\ LET isElse == Top.type = "IfStatement" /\ Top.phase = "alternate"
         below == IF isElse
                  THEN SetTop(open, [Top EXCEPT !.phase = "inElse", !.flag = TRUE])
                  ELSE open
         E == pushEnvironment(envList, BlockParent)
         f == [Frame("BlockStatement", BlockParent, "body")
                 EXCEPT !.wasU = InU(envList, "x"),
                        !.atBaseline = (BlockParent \in {"IfStatement", "SwitchCase"}
                                          => Sets(E) = Top.baseline)]
     IN /\ Finish(E, Append(below, f))
        /\ nodes' = IF isElse \/ Top.type \in {"Program", "BlockStatement"}
                    THEN nodes + 1 ELSE nodes
  /\ left' = NoLeft
  /\ UNCHANGED <<errors, declInit, may, unsafeRead, fun, elem, harnessVars>>

\* what BlockStatement.exit does to envList, by the type of the parent
exitBlockNoDoWhile(E, parent) ==
  IF parent \in {"Program", "BlockStatement"} THEN squash(E, FALSE)
  ELSE IF parent \notin {"SwitchCase", "IfStatement"} THEN popList(E)
  ELSE E
exitBlockSquashFunction(E, parent) ==
  IF parent \in {"Program", "BlockStatement", "DoWhileStatement", "FunctionDeclaration"}
  THEN squash(E, FALSE)
  ELSE IF parent \notin {"SwitchCase", "IfStatement"} THEN popList(E)
  ELSE E
exitBlock(E, parent) ==
  IF parent \in {"Program", "BlockStatement", "DoWhileStatement"} THEN squash(E, FALSE)
  ELSE IF parent \notin {"SwitchCase", "IfStatement"} THEN popList(E)
  ELSE E

\* BlockStatement.exit; the exit handlers of the loops and of Function do
\* nothing to envList, so the loop or function whose body ends is left too
BlockStatementExit ==
  /\ Traversing
  /\ Top.type = "BlockStatement"
  /\ LET parent == Top.parent
         E == exitBlock(envList, parent)
         q == Pop(open)
         P == Last(q)
         bodyI == InI(envList, "x")
     IN /\ Finish(E,
             CASE parent = "IfStatement" ->
                    SetTop(q, IF P.phase = "consequent"
                              THEN [P EXCEPT !.phase = "alternate", !.acc = may,
                                             !.promotes = @ /\ bodyI]
                              ELSE [P EXCEPT !.phase = "end", !.promotes = @ /\ bodyI,
                                             !.complete = TRUE])
               [] parent = "SwitchCase" ->
                    SetTop(q, [P EXCEPT !.phase = "case", !.promotes = @ /\ bodyI])
               [] parent \in {"ForStatement", "WhileStatement", "DoWhileStatement"}
                               \cup FunctionTypes ->
                    Pop(q)
               [] OTHER -> q)
        /\ may' =
             CASE parent = "IfStatement" -> IF P.phase = "consequent" THEN P.entry ELSE may
               [] parent \in {"ForStatement", "WhileStatement"} ->
                    P.entry \cup may \cup P.brk
               [] parent = "DoWhileStatement" -> may \cup P.brk
               [] parent \in FunctionTypes -> P.entry
               [] OTHER -> may
        /\ LET read == parent = "DoWhileStatement" /\ P.testReads /\ FALSE \in may
           IN /\ unsafeRead' = (unsafeRead \/ (read /\ ~InFunction))
              /\ fun' = CASE read /\ InFunction -> [fun EXCEPT !.bad = TRUE]
                           [] parent = "FunctionDeclaration" /\ P.parent = "Program" ->
                                [fun EXCEPT !.declared = TRUE, !.end = may,
                                            !.promotes = bodyI]
                           [] OTHER -> fun
        /\ left' = IF parent \in {"IfStatement", "SwitchCase"} THEN NoLeft
                   ELSE [type |-> IF parent \in {"Program", "BlockStatement"}
                                  THEN "BlockStatement" ELSE parent,
                         wasU |-> Top.wasU, nowI |-> InI(E, "x"),
                         promotes |-> bodyI, complete |-> TRUE]
  /\ elem' = IF Top.parent \in FunctionTypes
             THEN [inConstructor |-> Last(elem.inConstructorStack),
                   inConstructorStack |-> Pop(elem.inConstructorStack)]
             ELSE elem
  /\ UNCHANGED <<nodes, errors, declInit, harnessVars>>

\* an if statement can come next, as a statement or as the alternate of an if
IfParent ==
  CASE AtCompound -> Top.type
    [] Traversing /\ Top.type = "IfStatement" /\ Top.phase = "alternate"
         /\ nodes < MaxNodes /\ Len(open) + 2 <= MaxOpen -> "IfStatement"
    [] OTHER -> ""

\* IfStatement.enter: both branches in braces, the test not yet wrapped
IfStatementEnter ==
  /\ IfParent # ""
  /\ \E test \in Tests :
       LET below == IF IfParent = "IfStatement"
                    THEN SetTop(open, [Top EXCEPT !.phase = "inElse", !.flag = TRUE])
                    ELSE open
           f == [Frame("IfStatement", IfParent, IF test = "x" THEN "test" ELSE "consequent")
                   EXCEPT !.entry = may,
                          !.wasU = IF IfParent = "IfStatement" THEN Top.wasU
                                   ELSE InU(envList, "x"),
                          !.baseline = IF IfParent = "IfStatement" THEN Top.baseline
                                       ELSE Sets(envList)]
       IN Finish(pushNull(envList, 2, IfParent), Append(below, f))
  /\ nodes' = nodes + 1
  /\ left' = NoLeft
  /\ UNCHANGED <<errors, declInit, may, unsafeRead, fun, elem, harnessVars>>

\* IfStatement.exit
IfStatementExit ==
  /\ Traversing
  /\ Top.type = "IfStatement"
  /\ Top.phase \in {"alternate", "end"}
  /\ LET alternate == Top.flag
         parentIsIf == Top.parent = "IfStatement"
         E1 == IF alternate
               THEN (IF parentIsIf THEN squash(envList, TRUE) ELSE squash(envList, FALSE))
               ELSE popList(envList)
         E2 == IF parentIsIf \/ E1.thrown THEN E1 ELSE popRoot(E1, TRUE)
         q == Pop(open)
     IN /\ Finish(E2, IF parentIsIf
                      THEN SetTop(q, [Last(q) EXCEPT !.phase = "end",
                                                     !.promotes = @ /\ Top.promotes,
                                                     !.complete = Top.complete])
                      ELSE q)
        /\ left' = IF parentIsIf THEN NoLeft
                   ELSE [type |-> "IfStatement", wasU |-> Top.wasU, nowI |-> InI(E2, "x"),
                         promotes |-> Top.promotes, complete |-> Top.complete]
  /\ may' = Top.acc \cup may
  /\ UNCHANGED <<nodes, errors, declInit, unsafeRead, fun, elem, harnessVars>>

\* the declarator of the loop variable in  for (let i = 0; ...; ++i): each
\* loop has an identifier of its own, which is new to I; the model gives them
\* all one name
addLoopVariable(E) ==
  LET r == peekEnvironment(E) IN
  IF r = null THEN Throw(E) ELSE [E EXCEPT !.heap[r].I = @ \cup {"i"}]

\* ForStatement.enter of  for (let i = 0; test; ++i) { ... }  with the
\* declarator of i; the test is c or x, the body is in braces
ForStatementEnter ==
  /\ AtCompound
  /\ \E test \in Tests :
       Finish(addLoopVariable(envList),
              Append(open, [Frame("ForStatement", Top.type,
                                  IF test = "x" THEN "test" ELSE "body")
                              EXCEPT !.entry = may]))
  /\ nodes' = nodes + 1
  /\ left' = NoLeft
  /\ UNCHANGED <<errors, declInit, may, unsafeRead, fun, elem, harnessVars>>

\* WhileStatement.enter: the body is in braces
WhileStatementEnter ==
  /\ AtCompound
  /\ \E test \in Tests :
       open' = Append(open, [Frame("WhileStatement", Top.type,
                                   IF test = "x" THEN "test" ELSE "body")
                               EXCEPT !.entry = may])
  /\ nodes' = nodes + 1
  /\ left' = NoLeft
  /\ UNCHANGED <<envList, errors, compiled, declInit, may, unsafeRead, fun, elem, harnessVars>>

\* DoWhileStatement.enter: the body is in braces; the test is visited first
\* and runs after the body
DoWhileStatementEnter ==
  /\ AtCompound
  /\ \E test \in Tests :
       open' = Append(open, [Frame("DoWhileStatement", Top.type,
                                   IF test = "x" THEN "test" ELSE "body")
                               EXCEPT !.entry = may, !.testReads = (test = "x")])
  /\ nodes' = nodes + 1
  /\ left' = NoLeft
  /\ UNCHANGED <<envList, errors, compiled, declInit, may, unsafeRead, fun, elem, harnessVars>>

\* Function.enter of  function f() { ... }.  Statements of the Program call
\* the last function declared in the Program; nothing calls the others
FunctionEnter ==
  /\ AtCompound
  /\ \E type \in FunctionTypes :
       LET called == type = "FunctionDeclaration" /\ Top.type = "Program"
           inCtor == type = "ClassMethod"
       IN /\ open' = Append(open, [Frame(type, Top.type, "body") EXCEPT !.entry = may])
          /\ may' = IF called THEN {FALSE} ELSE {}
          /\ fun' = IF called THEN NoFunction ELSE fun
          /\ elem' = [inConstructor |-> inCtor,
                      inConstructorStack |->
                        Append(elem.inConstructorStack, elem.inConstructor)]
  /\ nodes' = nodes + 1
  /\ left' = NoLeft
  /\ UNCHANGED <<envList, errors, compiled, declInit, unsafeRead, harnessVars>>

\* CallExpression.exit of the statement  f();  with the ReferencedIdentifier
\* of f, which is in no U: the callee is no member expression
CallExpressionExit ==
  /\ AtStatement
  /\ ~InFunction
  /\ fun.declared
  /\ Finish(IF peekEnvironment(envList) = null THEN Throw(envList) ELSE envList, open)
  /\ nodes' = nodes + 1
  /\ unsafeRead' = (unsafeRead \/ (FALSE \in may /\ fun.bad))
  /\ may' = (may \ {FALSE}) \cup (IF FALSE \in may THEN fun.end ELSE {})
  /\ left' = [type |-> "CallExpression", wasU |-> InU(envList, "x"),
              nowI |-> InI(envList, "x"), promotes |-> fun.promotes, complete |-> TRUE]
  /\ UNCHANGED <<errors, declInit, fun, elem, harnessVars>>

\* SwitchStatement.enter
SwitchStatementEnter ==
  /\ AtCompound
  /\ \E cs \in CaseLists :
       /\ nodes + 1 + Len(cs) <= MaxNodes
       /\ Finish(pushNull(envList, Cardinality({i \in DOMAIN cs : cs[i].braces}),
                          "SwitchStatement"),
                 Append(open, [Frame("SwitchStatement", Top.type, "case")
                                 EXCEPT !.cases = cs,
                                        !.flag = \E i \in DOMAIN cs : cs[i].test = "default",
                                        !.entry = may,
                                        !.wasU = InU(envList, "x"),
                                        !.baseline = Sets(envList)]))
       /\ nodes' = nodes + 1 + Len(cs)
  /\ may' = {}
  /\ left' = NoLeft
  /\ UNCHANGED <<errors, declInit, unsafeRead, fun, elem, harnessVars>>

\* SwitchCase: empty, or one block
SwitchCase ==
  /\ Traversing
  /\ Top.type = "SwitchStatement" /\ Top.phase = "case" /\ Top.cases # <<>>
  /\ LET c == Head(Top.cases)
     IN open' = SetTop(open, [Top EXCEPT !.cases = Tail(@), !.braces = c.braces,
                                !.phase = IF c.test = "x" THEN "test"
                                          ELSE IF c.braces THEN "consequent" ELSE "case"])
  /\ may' = Top.entry \cup may
  /\ left' = NoLeft
  /\ UNCHANGED <<nodes, envList, errors, compiled, declInit, unsafeRead, fun, elem, harnessVars>>

\* SwitchStatement.exit
SwitchStatementExit ==
  /\ Traversing
  /\ Top.type = "SwitchStatement" /\ Top.phase = "case" /\ Top.cases = <<>>
  /\ LET E1 == IF Top.flag THEN squash(envList, FALSE) ELSE popList(envList)
         E2 == IF E1.thrown THEN E1 ELSE popRoot(E1, FALSE)
     IN /\ Finish(E2, Pop(open))
        /\ left' = [type |-> "SwitchStatement", wasU |-> Top.wasU, nowI |-> InI(E2, "x"),
                    promotes |-> Top.promotes, complete |-> Top.flag /\ Top.braces]
  /\ may' = may \cup Top.brk \cup (IF Top.flag THEN {} ELSE Top.entry)
  /\ UNCHANGED <<nodes, errors, declInit, unsafeRead, fun, elem, harnessVars>>

\* Program.exit: throw st.elem when there are errors
ProgramExit ==
  /\ Traversing
  /\ Top.type = "Program" /\ Top.phase = "body"
  /\ open' = <<>>
  /\ compiled' = IF Len(errors) > 0 THEN "error" ELSE "ok"
  /\ left' = NoLeft
  /\ UNCHANGED <<nodes, envList, errors, declInit, may, unsafeRead, fun, elem, harnessVars>>

NextCompiler ==
  \/ VariableDeclarator
  \/ ReferencedIdentifier
  \/ AssignmentExpressionExit
  \/ AssignmentExpressionThis
  \/ AssignmentExpressionRejected
  \/ BreakStatement
  \/ BlockStatementEnter
  \/ BlockStatementExit
  \/ IfStatementEnter
  \/ IfStatementExit
  \/ ForStatementEnter
  \/ WhileStatementEnter
  \/ DoWhileStatementEnter
  \/ FunctionEnter
  \/ CallExpressionExit
  \/ SwitchStatementEnter
  \/ SwitchCase
  \/ SwitchStatementExit
  \/ ProgramExit

\* the harness is not running while compile checks the program
HarnessIdle ==
  /\ InitHarness
  /\ ~sudo
  /\ ~hasDocument
  /\ prog = [i \in Stmts |-> "work"]

InitCompiler == HarnessIdle /\ ProgramEnter

SpecCompiler == InitCompiler /\ [][NextCompiler]_vars

\* ---- the run-time checks as the running program calls them -----------------

\* the keys a program uses between brackets
IndexKeys == {Num(i) : i \in Indices} \cup {Fraction, Str("a")}

\* disableEJS()
disableEJS ==
  /\ ~ejsOff
  /\ ejsOff' = TRUE
  /\ lastCheck' = NoOutcome
  /\ UNCHANGED <<heap, g, hostVars, compilerVars>>

\* Array.create(n, 0); the program keeps the array in place of its object
ArrayCreate ==
  /\ \E n \in IndexKeys \ {Str("a")} :
       LET x == ArrayStubCreate(ejsOff, heap, n, Num(0))
       IN /\ heap' = x.heap
          /\ lastCheck' = Outcome("Array.create", Undefined, n, Num(0), x)
  /\ UNCHANGED <<ejsOff, g, hostVars, compilerVars>>

\* checkCall(object, field, args), spliced in for  object.split(...)  and
\* Object.keys(...)
CheckCall ==
  /\ \E object \in {Str("a,b"), Ref, Val("function", 0, "Object")},
        field \in {"split", "keys"} :
       /\ field = "keys" => object.t = "function"
       /\ lastCheck' = Outcome("checkCall", object, Str(field), Undefined,
                             checkCall(ejsOff, heap, object, field))
  /\ UNCHANGED <<ejsOff, heap, g, hostVars, compilerVars>>

\* dot(object, index), spliced in for  object.index; the string is "a,b"
Dot ==
  /\ \E object \in {Undefined, Null, Ref, Val("string", 3, "a,b")},
        index \in {Str("a"), Str("b"), Str("m"), Str("length"), Str("split")} :
       /\ index.s \in {"length", "split"} <=> object.t = "string"
       /\ lastCheck' = Outcome("dot", object, index, Undefined,
                               dot(ejsOff, heap, object, index, Begin(heap)))
  /\ UNCHANGED <<ejsOff, heap, g, hostVars, compilerVars>>

\* checkMember(o, k, 1), spliced in for  o.k = 1
CheckMember ==
  /\ \E o \in {Undefined, Null, Ref}, k \in {Str("a"), Str("b"), Str("m")}, v \in {Num(1)} :
       LET x == checkMember(ejsOff, heap, o, k, v)
       IN /\ heap' = x.heap
          /\ lastCheck' = Outcome("checkMember", o, k, v, x)
  /\ UNCHANGED <<ejsOff, g, hostVars, compilerVars>>

\* checkArray(o, k, 1), spliced in for  o[k] = 1
CheckArray ==
  /\ \E o \in {Undefined, Null, Ref}, k \in IndexKeys, v \in {Num(1)} :
       LET x == checkArray(ejsOff, heap, o, k, v)
       IN /\ heap' = x.heap
          /\ lastCheck' = Outcome("checkArray", o, k, v, x)
  /\ UNCHANGED <<ejsOff, g, hostVars, compilerVars>>

\* AssignmentExpression.enter on  object[property] *= 1  (object.property *= 1
\* when not computed):  exp.x += rhs => tmp = exp, tmp.x = tmp.x + rhs.  The
\* member read is built from the argument of the property when the property
\* is an update expression, and from the property itself otherwise
desugarRepeatsObject(object, property, computed) ==
  LET member(o, p) == [object |-> o, property |-> p, computed |-> computed]
  IN [a1 |-> [left |-> "tmp", right |-> object],
      a2 |-> [left |-> member(object, property),
              right |-> member(object, IF property = "++i" THEN "i" ELSE property)]]
desugar(object, property, computed) ==
  LET member(o, p) == [object |-> o, property |-> p, computed |-> computed]
  IN [a1 |-> [left |-> "tmp", right |-> object],
      a2 |-> [left |-> member("tmp", property),
              right |-> member("tmp", IF property = "++i" THEN "i" ELSE property)]]

\* the statement  object[property] *= 1;  or  object.a *= 1;  compiled and run.
\* object is the variable a or the call g(), both give the heap object; f()
\* is  function f() { i = i + 1; return i; }.  The sequence runs as
\*   tmp = object, checkArray(tmp, property, arrayBoundsCheck(tmp, read) * 1)
\* with the arguments evaluated from left to right (checkMember and dot when
\* not computed).  Every element read exists and is a number
CompoundAssignment ==
  /\ \E object \in {"a", "g()"}, property \in {"a", "i", "++i", "i += 1", "f()"},
        i \in Indices :
       LET computed == property # "a"
           d == desugar(object, property, computed)
           evaluated(e) == IF e = object THEN 1 ELSE 0
           after(p, j) == IF p \in {"++i", "i += 1", "f()"} THEN j + 1 ELSE j
           key(p, j) == IF computed THEN Num(j) ELSE Str(p)
           iw == after(d.a2.left.property, i)
           ir == after(d.a2.right.property, iw)
           kw == key(d.a2.left.property, iw)
           kr == key(d.a2.right.property, ir)
       IN /\ computed <=> heap.array
          /\ computed => iw \in Indices /\ ir \in Indices /\ iw >= 0
          /\ hasOwnProperty(heap, kr)
          /\ LET x1 == IF computed THEN arrayBoundsCheck(ejsOff, heap, Ref, kr, Begin(heap))
                       ELSE dot(ejsOff, heap, Ref, kr, Begin(heap))
                 x2 == IF x1.raised # "none" THEN x1
                       ELSE IF computed THEN checkArray(ejsOff, heap, Ref, kw, x1.value)
                       ELSE checkMember(ejsOff, heap, Ref, kw, x1.value)
             IN /\ heap' = x2.heap
                /\ lastCheck' =
                     Outcome("compound", Ref, kw, x1.value, x2)
                       @@ [object |-> object, property |-> property, read |-> kr,
                           objectEvaluated |-> evaluated(d.a1.right)
                                                 + evaluated(d.a2.left.object)
                                                 + evaluated(d.a2.right.object),
                           effects |-> ir - i]
  /\ UNCHANGED <<ejsOff, g, hostVars, compilerVars>>

\* the program writes a global variable:  let k = 1;  at the top level is the
\* write  g.k = 1  through globalProxy, which has a get trap and no set trap,
\* so the write goes to the object behind it
GlobalSet ==
  /\ \E k \in DOMAIN g :
       /\ g' = [g EXCEPT ![k] = "program"]
       /\ lastCheck' = Outcome("set", Undefined, Str(k), Num(1),
                               [Begin(heap) EXCEPT !.value = Num(1)])
  /\ UNCHANGED <<ejsOff, heap, hostVars, compilerVars>>

NextRuntime ==
  \/ disableEJS
  \/ CompoundAssignment
  \/ ArrayCreate
  \/ CheckCall
  \/ Dot
  \/ CheckMember
  \/ CheckArray

\* neither the harness nor compile is running while the checks are called
InitRuntime == HarnessIdle /\ CompilerIdle

SpecRuntime == InitRuntime /\ [][NextRuntime]_vars

\* a program of declarations of global variables
SpecGlobals == InitRuntime /\ [][GlobalSet]_vars

Next ==
  \/ HostEnableTests
  \/ HostSummary
  \/ HostRun
  \/ HostStop
  \/ MainYieldPause
  \/ ThunkYieldPause
  \/ ThunkRun
  \/ TimerFire
  \/ ResumeFire
  \/ MainFinish
  \/ MainWork
  \/ MainTest
  \/ MainPrim
  \/ ExtSleep
  \/ ExtFetch
  \/ ExtJson
  \/ ExtBlob
  \/ ExtImg

Spec == Init /\ [][Next]_vars

\* the event loop runs every callback that is queued (a timer, a settled
\* promise, a setImmediate) and the scheduler gives the program its turns;
\* the embedder is free to call the handle or not
SpecFair ==
  /\ Spec
  /\ WF_vars(MainYieldPause \/ ThunkYieldPause \/ ThunkRun \/ MainFinish \/ MainWork
               \/ MainTest \/ MainPrim)
  /\ WF_vars(TimerFire \/ ResumeFire)
  /\ WF_vars(ExtSleep \/ ExtFetch \/ ExtJson \/ ExtBlob \/ ExtImg)

(***************************************************************************)
(* Properties of the test harness and of the handle.                       *)
(***************************************************************************)
\* nothing of the program or of the scheduler is left to run
Settled ==
  /\ started
  /\ mainState # "ready"
  /\ thunkState # "ready"
  /\ timers = {}
  /\ ~resumePending
  /\ ext = "none"

OnlyTests == \A i \in Stmts : prog[i] \in TestKinds \cup {"work"}

OrderedByCall(seq) ==
  \A a, b \in 1 .. Len(seq) : a < b => seq[a].description < seq[b].description

\* C1: for a test call made while testing is enabled, tests.push runs at most
\* once (by the thunk's completion or by the timer's pause callback, never
\* both), and once the captured continuation of the call has been re-entered
\* it has run exactly once, in every interleaving of timer, pause callback
\* and thunk completion.
C1_ExactlyOneRecord ==
  \A i \in Stmts :
    /\ pushed[i] <= 1
    /\ i \in resumedK => pushed[i] = 1
    /\ i \in done => pushed[i] = 1

\* C1 witness: the timer of a slow test fired, the thunk then completed, and
\* the stale pause callback ran at the next yield of the program.
C1_Witness ==
  /\ OnlyTests /\ ~stopRequested
  /\ mainState = "paused"
  /\ \E i \in Stmts : prog[i] = "testSlow" /\ i \in done /\ pushed[i] = 1

\* C2: without stop, every test call completes and the enclosing program goes
\* on to its later statements: once nothing is left to run, the program has
\* run to its end.
C2_EveryTestCompletes ==
  (Settled /\ ~sudo /\ ~stopRequested /\ OnlyTests) => mainState = "done"

\* C3: a test timer that fires after stop() was requested never resumes the
\* runner.
C3_LateTimerDoesNotResume == ~resumedByLateTimer

\* C4: an external callback of a suspended primitive that answers after
\* stop() was requested has consulted isRunning and routes to onStopped.
C4_CallbackHonoursStop ==
  (lastCb.afterStop /\ lastCb.routed # "none") =>
    (lastCb.consulted /\ lastCb.routed = "onStopped")

\* C5: after stop(onStopped), onStopped is invoked: once nothing is left to
\* run, it has been called.
C5_StopAlwaysSucceeds ==
  (stopRequested /\ Settled) => hostStopped >= 1

\* C6: a failure inside a test's thunk becomes a failed record and does not
\* propagate: the program goes on after the call and its run result is never
\* an exception.
C6_TestFailureIsContained ==
  ~sudo =>
    /\ runResult # "exception"
    /\ \A i \in Stmts :
         (prog[i] = "testFail" /\ i \in thunkRan) =>
           (i \in resumedK /\ pc > i /\ pushed[i] = 1)
    /\ \A j \in 1 .. Len(tests) :
         prog[tests[j].description] = "testFail" =>
           (tests[j].failed /\ tests[j].error = "Assertion failed.")

\* C6 witness: a test whose thunk failed has its failed record, and the run
\* ended normally.
C6_Witness ==
  /\ ~sudo /\ runResult = "normal"
  /\ \E j \in 1 .. Len(tests) : prog[tests[j].description] = "testFail" /\ tests[j].failed

\* C7: records are in the order in which the test calls ran, and the lines
\* of a report are in that order too.
C7_RecordsInCallOrder ==
  /\ OrderedByCall(tests)
  /\ OrderedByCall(summaryOut.lines)
  /\ \A j \in 1 .. Len(summaryOut.lines) :
       summaryOut.lines[j].status = "OK" <=>
         prog[summaryOut.lines[j].description] \in {"testOk", "testSlow"}
            /\ summaryOut.lines[j].error = "none"

\* C7 witness: a report of two tests.
C7_Witness == summaryOut.kind = "report" /\ Len(summaryOut.lines) >= 2

\* C8: once summary has reported, testing is disabled and the record list was
\* emptied by it, and every further summary returns "not enabled" until
\* enableTests(true).
C8_SummaryOnce ==
  /\ (lastOp = "summary" /\ summaryOut.kind \in {"report", "noTests"}) =>
       (tests = <<>> /\ ~testsEnabled)
  /\ sinceReport # "none" => ~testsEnabled
  /\ (lastOp = "summary" /\ sinceReport = "again") => summaryOut.kind = "notEnabled"

\* C8 witness: a second summary after a report.
C8_Witness == lastOp = "summary" /\ sinceReport = "again"

\* C9: a test call made while testing is not enabled runs no thunk, appends
\* no record and arms no timer.
C9_DisabledTestDoesNothing ==
  \A i \in calledOff : i \notin thunkRan /\ i \notin armedEver /\ pushed[i] = 0

\* C9 witness: the program went past a test call made while disabled.
C9_Witness == \E i \in calledOff : prog[i] = "testLoop" /\ pc > i

(***************************************************************************)
(* Properties of the definite-assignment tracker.                          *)
(***************************************************************************)
\* C10: if the program compiles without a diagnostic, then on every path
\* every read of x, declared without initializer, comes after an assignment
\* to x.
C10_DefiniteAssignmentOnEveryPath ==
  (compiled = "ok" /\ ~declInit) => ~unsafeRead

\* C11: when an if statement (with its chain of else-ifs) is left, x has
\* moved from U to I in the enclosing environment only if the chain ends in an
\* else and x was in I at the end of every branch; a chain without a final
\* else moves nothing.
C11_IfPromotesOnlyWhenEveryBranchDoes ==
  (left.type = "IfStatement" /\ left.wasU /\ left.nowI)
    => (left.complete /\ left.promotes)

\* C11 witness: an if statement was left and x moved from U to I.
C11_Witness == left.type = "IfStatement" /\ left.wasU /\ left.nowI /\ compiled = "no"

\* C12: every branch of an if / else-if / else chain is entered with the I and
\* U sets the enclosing environment had when the chain began, so what a branch
\* assigns is never initialized at the start of a sibling branch.
C12_BranchesStartFromBaseline ==
  \A i \in 1 .. Len(open) :
    (open[i].type = "BlockStatement" /\ open[i].parent = "IfStatement")
      => open[i].atBaseline

\* C12 witness: the else branch is entered after a consequent that assigned x.
C12_Witness ==
  /\ Len(open) >= 2
  /\ Top.type = "BlockStatement" /\ Top.parent = "IfStatement" /\ Top.atBaseline
  /\ open[Len(open) - 1].phase = "inElse"
  /\ open[Len(open) - 1].wasU /\ open[Len(open) - 1].promotes
  /\ compiled = "no"

\* C13: when a switch statement is left, x has moved from U to I in the
\* enclosing environment only if the switch has a default and x was in I at
\* the end of every group of cases, a group being a run of empty cases with
\* the body they fall into; a group with no body at all (empty cases that end
\* the switch) assigns nothing.
C13_SwitchPromotesOnlyWhenEveryCaseDoes ==
  (left.type = "SwitchStatement" /\ left.wasU /\ left.nowI)
    => (left.complete /\ left.promotes)

\* C14: when the body of a while or for loop is left, x has not moved from U
\* to I in the enclosing environment, whatever the body assigned; when the
\* body of a do-while loop or a plain block is left, x has moved exactly when
\* it was in I at the end of the body.
C14_LoopBodiesDoNotPromote ==
  /\ (left.type \in {"WhileStatement", "ForStatement"} /\ left.wasU) => ~left.nowI
  /\ (left.type \in {"DoWhileStatement", "BlockStatement"} /\ left.wasU)
       => (left.nowI <=> left.promotes)

\* C14 witness: a while or for loop whose body assigned x was left, and x is
\* still uninitialized in the enclosing environment.
C14_Witness ==
  /\ left.type \in {"WhileStatement", "ForStatement"}
  /\ left.wasU /\ left.promotes /\ ~left.nowI
  /\ InU(envList, "x")
  /\ compiled = "no"

\* C15: when the body of a function is left, and when the function is called
\* afterwards, x is still in U and not in I of the enclosing environment if
\* it was in U before, whatever the body assigned.
C15_FunctionBodyIsDiscarded ==
  (left.type \in {"FunctionDeclaration", "CallExpression"} /\ left.wasU)
    => (~left.nowI /\ InU(envList, "x"))

\* C15 witness: a function whose body assigned x was declared and then called,
\* and x is still uninitialized in the enclosing environment.
C15_Witness ==
  /\ left.type = "CallExpression"
  /\ left.wasU /\ left.promotes
  /\ InU(envList, "x") /\ ~InI(envList, "x")
  /\ compiled = "no"

\* C16: after every handler, in every environment that envList holds (in its
\* list or as a root), no identifier is in both I and U.
C16_IAndUDisjoint ==
  \A r \in DOMAIN envList.heap : envList.heap[r].I \cap envList.heap[r].U = {}

\* C16 witness: x has been swapped in one environment and is still in U in
\* another environment of the stack.
C16_Witness ==
  /\ compiled = "no"
  /\ \E r1, r2 \in DOMAIN envList.heap :
       "x" \in envList.heap[r1].I /\ "x" \in envList.heap[r2].U

\* C17: a failed static check appends its diagnostic and the traversal goes
\* on, so that when compile returns, every diagnostic appended is in the list
\* of the CompileError returned: the result is st.elem whenever a diagnostic
\* was appended, never the message of an exception that ended the traversal.
C17_EveryDiagnosticIsReported ==
  (compiled # "no" /\ errors # <<>>) => compiled = "error"

(***************************************************************************)
(* Properties of the run-time checks.                                      *)
(***************************************************************************)
\* C18: once disableEJS has been called, no run-time check raises: the last
\* check called has returned, whatever its arguments.
C18_SilentModeNeverRaises == ejsOff => lastCheck.raised = "none"

\* C19: while errors are raised, a call checkMember(o, k, v) on an object that
\* is no array and has k as an own property sets that property to v, changes
\* nothing else and returns v; every other call raises and changes nothing.
C19_MemberWriteNeedsOwnProperty ==
  [][(~ejsOff /\ lastCheck'.op = "checkMember") =>
       LET c == lastCheck' IN
       IF c.o = Ref /\ ~heap.array /\ hasOwnProperty(heap, c.k)
       THEN c.raised = "none" /\ c.value = c.v /\ heap' = Put(heap, c.k, c.v)
       ELSE c.raised # "none" /\ heap' = heap]_vars

C28_TestsCheckedAgainstBaseline ==
  [][(/\ Traversing
      /\ Top.phase = "test"
      /\ \/ Top.type = "IfStatement" /\ Top.parent = "IfStatement"
         \/ Top.type = "SwitchStatement")
       => ((errors' # errors) <=> ("x" \in Top.baseline.U))]_vars

\* C29: no operation of the environment list fails during a traversal, and
\* when Program.exit has run, the list holds the global environment alone and
\* both root stacks are empty.
C29_PushesAndPopsBalance ==
  /\ ~envList.thrown
  /\ compiled \in {"ok", "error"}
       => /\ Len(envList.list) = 1 /\ Len(envList.list[1]) = 1
          /\ envList.rootIf = <<>> /\ envList.rootSw = <<>>

\* ------------------------------------------------------------------
\* Properties of the rewriting of assignments
\* ------------------------------------------------------------------

\* the functions around the statement visited, innermost last
Enclosing == SelectSeq(open, LAMBDA f : f.type \in FunctionTypes)

\* the statement visited is in the body of a constructor, or of arrow
\* functions nested in the body of a constructor
InConstructorBody ==
  \E i \in 1 .. Len(Enclosing) :
     /\ Enclosing[i].type = "ClassMethod"
     /\ \A h \in i + 1 .. Len(Enclosing) : Enclosing[h].type = "ArrowFunctionExpression"

\* C23: the statement  this.m = 0;  is left without a member check exactly
\* when it is in a constructor: directly in its body or in arrow functions
\* nested in it, and not in a function declared in it
C23_ThisWritesUncheckedInConstructor ==
  left.type \in {"this.m = 0", "checkMember"}
    => (left.type = "this.m = 0" <=> InConstructorBody)

\* C22: a compound assignment to a member evaluates the expression of the
\* object exactly once, whether it is a variable or a call
C22_ObjectEvaluatedOnce ==
  lastCheck.op = "compound" => lastCheck.objectEvaluated = 1

C22_Witness ==
  /\ lastCheck.op = "compound"
  /\ lastCheck.object = "g()"
  /\ lastCheck.objectEvaluated = 1
  /\ lastCheck.raised = "none"

\* C30: a compound assignment to an element whose index is an update, an
\* assignment or a call evaluates the index exactly once, and the element
\* read is the element written
C30_IndexEvaluatedOnce ==
  (lastCheck.op = "compound" /\ lastCheck.property \in {"++i", "i += 1", "f()"})
    => (lastCheck.effects = 1 /\ lastCheck.read = lastCheck.k)

\* ------------------------------------------------------------------
\* Properties of the global object
\* ------------------------------------------------------------------

\* C24: a write to a global name of the library fails with an error and
\* leaves the name bound to the library; a write to any other global name
\* succeeds and binds the name for the program
C24_LibraryGlobalsCannotBeOverwritten ==
  lastCheck.op = "set" =>
    IF globals[lastCheck.k.s] = "library"
    THEN lastCheck.raised = "ElementaryRuntimeError" /\ g[lastCheck.k.s] = "library"
    ELSE lastCheck.raised = "none" /\ g[lastCheck.k.s] = "program"

\* ------------------------------------------------------------------
\* Further properties of the harness
\* ------------------------------------------------------------------

\* C25: when the pause that a test's timer requested is served after the
\* test body has completed, the runner is not left paused: it stays running,
\* or a resume is queued
C25_StalePauseDoesNotStopTheProgram ==
  [][(/\ onYieldHook.kind = "timer"
      /\ onYieldHook.i \in done
      /\ onYieldHook' = NoHook)
       => (eventMode' # "paused" \/ resumePending')]_vars

\* C26: a suspension is answered at most once.  A program suspended in a
\* primitive makes no further call, so every call of onStopped counted here
\* answers that one suspension, and no callback calls continueImmediate on
\* the scheduler (see Routed)
C26_SuspensionAnsweredAtMostOnce ==
  (mainState = "inPrim" /\ ~isRunning) => encStopped <= 1

\* C27: a program suspended in sleep or input goes on with its next
\* statement, unless the embedder stops the runner
C27_SuspendedPrimitiveContinues ==
  (mainState = "inPrim" /\ prog[pc] \in {"sleep", "input"})
    ~> (mainState # "inPrim" \/ stopRequested)

====
